---- MODULE Spec2Model ----
(***************************************************************************)
(* Connectome Mapper 3: the Docker wrapper script                          *)
(* (cmp/cli/connectomemapper3_docker.py) and the diffusion reconstruction  *)
(* workflow builders (cmp/stages/diffusion/reconstruction.py).             *)
(*                                                                         *)
(* Python values are encoded as follows.  An optional value (argparse      *)
(* leaves an option that was not given at None) is a set: {} is None and   *)
(* {v} is the value v.  The command string is kept as the sequence of the  *)
(* fragments the code appends with `cmd +=`, in order; the string itself   *)
(* is their concatenation (CmdString).                                     *)
(***************************************************************************)
EXTENDS Integers, Sequences, FiniteSets, TLC

VARIABLES
    args,        \* the parsed argument namespace
    cmd,         \* create_docker_cmd's return value, as fragments
    pc,          \* main(): position in the function
    tracker,     \* the EmissionsTracker: "none", "created", "started", "stopped"
    n_start,     \* number of tracker.start() calls
    n_stop,      \* number of tracker.stop() calls
    ran,         \* run(cmd): "no", "ok" or "raised"
    exit_code,   \* main(): the local exit_code, {} while unassigned
    outcome,     \* main(): "running", "returned" or "uncaught"
    builder,     \* the create_*_recon_flow routine last called, "none" before
    config,      \* the configuration object it was given
    flow,        \* what the call built: nodes declared, edges connected, how it ended
    run,         \* the scalar-map nodes of a DTK flow after execution, {} before
    gibbs,       \* the gibbs_recon node after execution, {} before
    dtk_cfg,     \* a DTK_recon_config object being edited
    camino_cfg   \* a Camino_recon_config object being edited

docker_vars == <<args, cmd, pc, tracker, n_start, n_stop, ran, exit_code, outcome>>

flow_vars == <<builder, config, flow, run, gibbs>>

config_vars == <<dtk_cfg, camino_cfg>>

vars == <<docker_vars, flow_vars, config_vars>>

(***************************************************************************)
(* Bounds of the model.                                                    *)
(***************************************************************************)
MaxArgVal == 1      \* optional integer arguments range over 0..MaxArgVal
MaxLabels == 2      \* participant_label holds 1..MaxLabels labels

None == {}
Some(v) == {v}
Val(o) == CHOOSE v \in o : TRUE

(* Python truthiness of an optional int, string and list. *)
TruthyInt(o) == o /= None /\ Val(o) /= 0
TruthyStr(o) == o /= None /\ Val(o) /= ""
TruthyList(o) == o /= None /\ Len(Val(o)) > 0

(***************************************************************************)
(* Argument values.                                                        *)
(***************************************************************************)
BidsDir == "/data/bids"
OutputDir == "/data/derivatives"
DockerImage == "cmp-bidsapp:latest"
AnalysisLevel == "participant"
ConfigDirs == {None, Some("/data/configs")}
FsLicenses == {None, Some("/opt/freesurfer/license.txt")}
LabelName(i) == "0" \o ToString(i)
LabelLists == {[i \in 1..n |-> LabelName(i)] : n \in 1..MaxLabels}
ParticipantLabels == {None} \cup {Some(l) : l \in LabelLists}
SessionLabels == {None, Some(<<"01">>)}
AnatConfigs == {None, Some("ref_anatomical_config.json")}
DwiConfigs == {None, Some("ref_diffusion_config.json")}
FuncConfigs == {None, Some("ref_fMRI_config.json")}
OptInts == {None} \cup {Some(v) : v \in 0..MaxArgVal}

optional_single_args ==
    <<"number_of_threads", "number_of_participants_processed_in_parallel",
      "mrtrix_random_seed", "ants_random_seed", "ants_number_of_threads">>

OptArgNames == {optional_single_args[i] : i \in 1..Len(optional_single_args)}

ArgSpace ==
    [coverage : BOOLEAN,
     bids_dir : {BidsDir},
     output_dir : {OutputDir},
     config_dir : ConfigDirs,
     fs_license : FsLicenses,
     docker_image : {DockerImage},
     analysis_level : {AnalysisLevel},
     participant_label : ParticipantLabels,
     session_label : SessionLabels,
     anat_pipeline_config : AnatConfigs,
     dwi_pipeline_config : DwiConfigs,
     func_pipeline_config : FuncConfigs,
     opt : [OptArgNames -> OptInts],
     notrack : BOOLEAN,
     track_carbon_footprint : BOOLEAN]

(***************************************************************************)
(* create_docker_cmd                                                       *)
(***************************************************************************)
RECURSIVE LabelFragments(_)
LabelFragments(labels) ==
    IF labels = <<>> THEN <<>>
    ELSE <<Head(labels) \o " ">> \o LabelFragments(Tail(labels))

OptArgGiven(v) == TruthyInt(v)

OptArgFragment(a, name) ==
    IF OptArgGiven(a.opt[name])
    THEN <<"--" \o name \o " " \o ToString(Val(a.opt[name])) \o " ">>
    ELSE <<>>

RECURSIVE OptArgFragments(_, _)
OptArgFragments(a, names) ==
    IF names = <<>> THEN <<>>
    ELSE OptArgFragment(a, Head(names)) \o OptArgFragments(a, Tail(names))

(* Mutant: the else branch of the /config mount is lost. *)
ConfigMount_NoDefault(a) ==
    IF TruthyStr(a.config_dir)
    THEN <<"-v " \o Val(a.config_dir) \o ":/config ">>
    ELSE <<>>

ConfigMount(a) ==
    IF TruthyStr(a.config_dir)
    THEN <<"-v " \o Val(a.config_dir) \o ":/config ">>
    ELSE <<"-v " \o a.bids_dir \o "/code:/config ">>

PipelineConfigFragment(flag, o) ==
    IF TruthyStr(o) THEN <<"--" \o flag \o " /config/" \o Val(o) \o " ">> ELSE <<>>

CoverageEntrypoint(a) ==
    IF a.coverage THEN <<"--entrypoint /app/run_coverage_cmp3.sh ">> ELSE <<>>

(* Mutant: the trailing --coverage flag is lost. *)
CoverageFlag_Dropped(a) == <<>>

CoverageFlag(a) ==
    IF a.coverage THEN <<"--coverage">> ELSE <<>>

(* Mutant: the FreeSurfer license is never mounted. *)
DockerPrelude_NoLicenseMount(a) ==
    <<"docker run -t --rm ", "-u $(id -u):$(id -g) ">>
    \o CoverageEntrypoint(a)
    \o <<"-v " \o a.bids_dir \o ":/bids_dir ">>
    \o <<"-v " \o a.output_dir \o ":/output_dir ">>
    \o ConfigMount(a)

DockerPrelude(a) ==
    <<"docker run -t --rm ", "-u $(id -u):$(id -g) ">>
    \o CoverageEntrypoint(a)
    \o <<"-v " \o a.bids_dir \o ":/bids_dir ">>
    \o <<"-v " \o a.output_dir \o ":/output_dir ">>
    \o ConfigMount(a)
    \o (IF TruthyStr(a.fs_license)
        THEN <<"-v " \o Val(a.fs_license) \o ":/bids_dir/code/license.txt ">>
        ELSE <<>>)

(* Mutant: the analysis level is appended after the label options. *)
BidsAppInputs_LevelAfterLabels(a) ==
    <<"/bids_dir ", "/output_dir ">>
    \o (IF TruthyList(a.participant_label)
        THEN <<"--participant_label ">> \o LabelFragments(Val(a.participant_label))
        ELSE <<>>)
    \o (IF TruthyList(a.session_label)
        THEN <<"--session_label ">> \o LabelFragments(Val(a.session_label))
        ELSE <<>>)
    \o <<a.analysis_level \o " ">>
    \o PipelineConfigFragment("anat_pipeline_config", a.anat_pipeline_config)
    \o PipelineConfigFragment("dwi_pipeline_config", a.dwi_pipeline_config)
    \o PipelineConfigFragment("func_pipeline_config", a.func_pipeline_config)
    \o <<"--fs_license /bids_dir/code/license.txt ">>
    \o OptArgFragments(a, optional_single_args)
    \o (IF a.notrack THEN <<"--notrack ">> ELSE <<>>)
    \o CoverageFlag(a)

BidsAppInputs(a) ==
    <<"/bids_dir ", "/output_dir ", a.analysis_level \o " ">>
    \o (IF TruthyList(a.participant_label)
        THEN <<"--participant_label ">> \o LabelFragments(Val(a.participant_label))
        ELSE <<>>)
    \o (IF TruthyList(a.session_label)
        THEN <<"--session_label ">> \o LabelFragments(Val(a.session_label))
        ELSE <<>>)
    \o PipelineConfigFragment("anat_pipeline_config", a.anat_pipeline_config)
    \o PipelineConfigFragment("dwi_pipeline_config", a.dwi_pipeline_config)
    \o PipelineConfigFragment("func_pipeline_config", a.func_pipeline_config)
    \o <<"--fs_license /bids_dir/code/license.txt ">>
    \o OptArgFragments(a, optional_single_args)
    \o (IF a.notrack THEN <<"--notrack ">> ELSE <<>>)
    \o CoverageFlag(a)

create_docker_cmd(a) ==
    DockerPrelude(a) \o <<a.docker_image \o " ">> \o BidsAppInputs(a)

RECURSIVE CmdString(_)
CmdString(fragments) ==
    IF fragments = <<>> THEN "" ELSE Head(fragments) \o CmdString(Tail(fragments))

(***************************************************************************)
(* DTK_recon_config                                                        *)
(*                                                                         *)
(* A traits object: assigning a trait a value other than its current one   *)
(* stores the value and then calls the _<name>_changed handler, if the     *)
(* class has one.  Assignments a handler makes to traits without a handler *)
(* just store the value.                                                   *)
(***************************************************************************)
ImagingModels == {"DSI", "HARDI", "DTI", "", "QBALL"}

AdditionalMaps == <<"gFA", "skewness", "kurtosis", "P0">>

(* int(re.search('\d+', name).group(0)) for the gradient tables modelled *)
GradientTableDirections ==
    [siemens_06 |-> 6, siemens_64 |-> 64, mgh_dti_030 |-> 30]

GradientTableFiles == DOMAIN GradientTableDirections \cup {"Custom..."}

CustomGradientTables == {"", "/data/custom_gradient_table.txt"}

(* line 40: Enum(514,[514,257,124]) *)
DsiDirections == {514, 257, 124}

(* lines 34-50: the class defaults *)
DTK_recon_config ==
    [imaging_model |-> "",
     maximum_b_value |-> 1000,
     gradient_table_file |-> "siemens_06",
     gradient_table |-> "",
     custom_gradient_table |-> "",
     dsi_number_of_directions |-> 514,
     number_of_directions |-> 514,
     number_of_output_directions |-> 181,
     recon_matrix_file |-> "DSI_matrix_515x181.dat",
     apply_gradient_orientation_correction |-> TRUE,
     number_of_averages |-> 1,
     multiple_high_b_values |-> FALSE,
     number_of_b0_volumes |-> 1,
     compute_additional_maps |-> {"gFA", "skewness", "kurtosis", "P0"}]

(* lines 64-66 *)
DTK_dsi_number_of_directions_changed(self, new) ==
    [self EXCEPT
        !.number_of_directions = new,
        !.recon_matrix_file = "DSI_matrix_" \o ToString(new + 1) \o "x181.dat"]

(* lines 68-73 *)
DTK_gradient_table_file_changed(self, new) ==
    IF new /= "Custom..."
    THEN [self EXCEPT
            !.gradient_table = "cmtklib/data/diffusion/gradient_tables/" \o new \o ".txt",
            !.number_of_directions = GradientTableDirections[new]]
    ELSE self

(* lines 75-76 *)
DTK_custom_gradient_table_changed(self, new) ==
    [self EXCEPT !.gradient_table = new]

(* lines 78-82 *)
DTK_imaging_model_changed(self, new) ==
    LET s1 == IF new = "DTI" \/ new = "HARDI"
              THEN DTK_gradient_table_file_changed(self, self.gradient_table_file)
              ELSE self
    IN  IF new = "DSI"
        THEN DTK_dsi_number_of_directions_changed(s1, s1.number_of_directions)
        ELSE s1

(***************************************************************************)
(* Camino_recon_config                                                     *)
(***************************************************************************)
MaxComponents == 2  \* max_components ranges up to MaxComponents

NumberOfTensors == {"1", "2", "3", "Multitensor"}

(* lines 168-173: the class defaults *)
Camino_recon_config ==
    [b_value |-> 1000,
     number_of_tensors |-> "1",
     max_components |-> 1,
     local_model |-> "dt",
     local_model_editor |->
        [dt |-> "Diffusion tensor", nldt_pos |-> "Non linear positive",
         nldt |-> "unconstrained non linear", ldt_wtd |-> "Diffusion weighted"]]

(* Mutant: max_components is not reset when going back to one tensor. *)
Camino_number_of_tensors_changed_NoReset(self, new) ==
    IF new = "1"
    THEN [self EXCEPT
            !.local_model_editor =
                [dt |-> "Linear fit", nldt_pos |-> "Non linear positive definite",
                 nldt |-> "Unconstrained non linear", ldt_wtd |-> "Weighted linear fit"],
            !.local_model = "dt"]
    ELSE IF new = "2"
    THEN [self EXCEPT
            !.local_model_editor =
                [cylcyl |-> "bla1", cylcyl_eq |-> "bla2", pospos |-> "bla3",
                 pospos_eq |-> "bla4", poscyl |-> "bla5", poscyl_eq |-> "bla6"],
            !.local_model = "cylcyl"]
    ELSE IF new = "3"
    THEN [self EXCEPT
            !.local_model_editor =
                [cylcylcyl |-> "bla7", cylcylcyl_eq |-> "bla8", pospospos |-> "bla9",
                 pospospos_eq |-> "bla10", posposcyl |-> "bla11",
                 posposcyl_eq |-> "bla12", poscylcyl |-> "bla13",
                 poscylcyl_eq |-> "bla14"],
            !.local_model = "cylcylcyl"]
    ELSE IF new = "Multitensor"
    THEN [self EXCEPT
            !.local_model_editor = [adc |-> "ADC", ball_stick |-> "Ball stick"],
            !.local_model = "adc"]
    ELSE self

(* lines 187-200 *)
Camino_number_of_tensors_changed(self, new) ==
    IF new = "1"
    THEN [self EXCEPT
            !.local_model_editor =
                [dt |-> "Linear fit", nldt_pos |-> "Non linear positive definite",
                 nldt |-> "Unconstrained non linear", ldt_wtd |-> "Weighted linear fit"],
            !.local_model = "dt",
            !.max_components = 1]
    ELSE IF new = "2"
    THEN [self EXCEPT
            !.local_model_editor =
                [cylcyl |-> "bla1", cylcyl_eq |-> "bla2", pospos |-> "bla3",
                 pospos_eq |-> "bla4", poscyl |-> "bla5", poscyl_eq |-> "bla6"],
            !.local_model = "cylcyl"]
    ELSE IF new = "3"
    THEN [self EXCEPT
            !.local_model_editor =
                [cylcylcyl |-> "bla7", cylcylcyl_eq |-> "bla8", pospospos |-> "bla9",
                 pospospos_eq |-> "bla10", posposcyl |-> "bla11",
                 posposcyl_eq |-> "bla12", poscylcyl |-> "bla13",
                 poscylcyl_eq |-> "bla14"],
            !.local_model = "cylcylcyl"]
    ELSE IF new = "Multitensor"
    THEN [self EXCEPT
            !.local_model_editor = [adc |-> "ADC", ball_stick |-> "Ball stick"],
            !.local_model = "adc"]
    ELSE self

ConfigIdle ==
    /\ dtk_cfg = DTK_recon_config
    /\ camino_cfg = Camino_recon_config

(***************************************************************************)
(* The command builder on its own: every argument namespace, one call.     *)
(* create_docker_cmd does not read track_carbon_footprint.                 *)
(***************************************************************************)
FlowIdle ==
    /\ builder = "none"
    /\ config = None
    /\ flow = None
    /\ run = None
    /\ gibbs = None

MainIdle ==
    /\ pc = "idle"
    /\ tracker = "none"
    /\ n_start = 0
    /\ n_stop = 0
    /\ ran = "no"
    /\ exit_code = None
    /\ outcome = "running"

CmdInit ==
    /\ args \in {a \in ArgSpace : ~a.track_carbon_footprint}
    /\ cmd = None
    /\ MainIdle
    /\ FlowIdle
    /\ ConfigIdle

BuildCmd ==
    /\ pc = "idle"
    /\ cmd = None
    /\ cmd' = Some(create_docker_cmd(args))
    /\ UNCHANGED <<config_vars, flow_vars, args, pc, tracker, n_start, n_stop, ran, exit_code, outcome>>

CmdNext == BuildCmd

SpecCmd == CmdInit /\ [][CmdNext]_vars

(***************************************************************************)
(* main()                                                                  *)
(*                                                                         *)
(* parse_args and check_directory_exists are taken to succeed (bids_dir    *)
(* exists), as are the tracker's constructor, start() and stop().  run()   *)
(* either completes or raises.                                             *)
(***************************************************************************)
MainArgSpace ==
    [coverage : BOOLEAN,
     bids_dir : {BidsDir},
     output_dir : {OutputDir},
     config_dir : ConfigDirs,
     fs_license : FsLicenses,
     docker_image : {DockerImage},
     analysis_level : {AnalysisLevel},
     participant_label : ParticipantLabels,
     session_label : SessionLabels,
     anat_pipeline_config : {Some("ref_anatomical_config.json")},
     dwi_pipeline_config : {Some("ref_diffusion_config.json")},
     func_pipeline_config : {None},
     opt : {[n \in OptArgNames |-> v] : v \in OptInts},
     notrack : BOOLEAN,
     track_carbon_footprint : BOOLEAN]

MainInit ==
    /\ args \in MainArgSpace
    /\ cmd = None
    /\ pc = "create_cmd"
    /\ tracker = "none"
    /\ n_start = 0
    /\ n_stop = 0
    /\ ran = "no"
    /\ exit_code = None
    /\ outcome = "running"
    /\ FlowIdle
    /\ ConfigIdle

(* lines 123-128 *)
MainCreateCmd ==
    /\ pc = "create_cmd"
    /\ cmd' = Some(create_docker_cmd(args))
    /\ pc' = "tracker"
    /\ UNCHANGED <<config_vars, flow_vars, args, tracker, n_start, n_stop, ran, exit_code, outcome>>

TrackingRequested(a) == a.track_carbon_footprint

(* lines 131-142 *)
MainStartTracker ==
    /\ pc = "tracker"
    /\ TrackingRequested(args)
    /\ tracker' = "started"
    /\ n_start' = n_start + 1
    /\ pc' = "run"
    /\ UNCHANGED <<config_vars, flow_vars, args, cmd, n_stop, ran, exit_code, outcome>>

MainNoTracker ==
    /\ pc = "tracker"
    /\ ~TrackingRequested(args)
    /\ pc' = "run"
    /\ UNCHANGED <<config_vars, flow_vars, args, cmd, tracker, n_start, n_stop, ran, exit_code, outcome>>

(* lines 145-148: run(cmd) completes *)
MainRunCompletes ==
    /\ pc = "run"
    /\ ran' = "ok"
    /\ exit_code' = Some(0)
    /\ pc' = "after_run"
    /\ UNCHANGED <<config_vars, flow_vars, args, cmd, tracker, n_start, n_stop, outcome>>

(* lines 145-152: run(cmd) raises, the exception is caught *)
MainRunRaises ==
    /\ pc = "run"
    /\ ran' = "raised"
    /\ exit_code' = Some(1)
    /\ pc' = "after_run"
    /\ UNCHANGED <<config_vars, flow_vars, args, cmd, tracker, n_start, n_stop, outcome>>

(* Mutant: the tracker is stopped only when run(cmd) completed. *)
MainStopTracker_OnSuccessOnly ==
    /\ pc = "after_run"
    /\ TrackingRequested(args)
    /\ IF ran = "ok"
       THEN tracker' = "stopped" /\ n_stop' = n_stop + 1
       ELSE UNCHANGED <<tracker, n_stop>>
    /\ pc' = "report"
    /\ UNCHANGED <<config_vars, flow_vars, args, cmd, n_start, ran, exit_code, outcome>>

(* lines 154-155 *)
MainStopTracker ==
    /\ pc = "after_run"
    /\ TrackingRequested(args)
    /\ tracker' = "stopped"
    /\ n_stop' = n_stop + 1
    /\ pc' = "report"
    /\ UNCHANGED <<config_vars, flow_vars, args, cmd, n_start, ran, exit_code, outcome>>

(* len(args.participant_label) at lines 157 and 167: len(None) raises      *)
(* TypeError, and an empty list makes the division at line 167 raise       *)
(* ZeroDivisionError.                                                      *)
ReportRaises(a) ==
    \/ a.participant_label = None
    \/ Len(Val(a.participant_label)) = 0

(* lines 156-175 *)
MainReport ==
    /\ pc = "report"
    /\ IF ReportRaises(args)
       THEN /\ outcome' = "uncaught"
            /\ pc' = "done"
       ELSE /\ outcome' = outcome
            /\ pc' = "return"
    /\ UNCHANGED <<config_vars, flow_vars, args, cmd, tracker, n_start, n_stop, ran, exit_code>>

(* line 177 *)
MainReturn ==
    /\ \/ pc = "return"
       \/ pc = "after_run" /\ ~TrackingRequested(args)
    /\ outcome' = "returned"
    /\ pc' = "done"
    /\ UNCHANGED <<config_vars, flow_vars, args, cmd, tracker, n_start, n_stop, ran, exit_code>>

MainNext ==
    \/ MainCreateCmd
    \/ MainStartTracker
    \/ MainNoTracker
    \/ MainRunCompletes
    \/ MainRunRaises
    \/ MainStopTracker
    \/ MainReport
    \/ MainReturn

SpecMain == MainInit /\ [][MainNext]_vars

(***************************************************************************)
(* File names.                                                             *)
(*                                                                         *)
(* A path is the sequence of its lexemes: the separators "/" and "." and   *)
(* the runs of other characters between them, so "/work/dsi_odf.nii" is    *)
(* <<"/", "work", "/", "dsi_odf", ".", "nii">>.  Cat is string             *)
(* concatenation on this form.                                             *)
(***************************************************************************)
MaxDepth == 2       \* working directories are 1..MaxDepth levels deep

IsName(t) == t \notin {"/", "."}

Last(p) == p[Len(p)]

Cat(x, y) ==
    IF x = <<>> THEN y
    ELSE IF y = <<>> THEN x
    ELSE IF IsName(Last(x)) /\ IsName(Head(y))
         THEN SubSeq(x, 1, Len(x) - 1) \o <<Last(x) \o Head(y)>> \o Tail(y)
         ELSE x \o y

LastIndexOf(p, t) ==
    LET at == {i \in 1..Len(p) : p[i] = t}
    IN  IF at = {} THEN 0 ELSE CHOOSE i \in at : \A j \in at : j <= i

RECURSIVE RStripSep(_)
RStripSep(p) ==
    IF p /= <<>> /\ Last(p) = "/" THEN RStripSep(SubSeq(p, 1, Len(p) - 1)) ELSE p

(* os.path.split: the head loses its trailing slashes unless it is all slashes *)
os_path_split(p) ==
    LET i == LastIndexOf(p, "/")
        head == SubSeq(p, 1, i)
        tail == SubSeq(p, i + 1, Len(p))
    IN  [head |-> IF \E k \in 1..Len(head) : head[k] /= "/" THEN RStripSep(head) ELSE head,
         tail |-> tail]

(* os.path.splitext: the extension starts at the last dot of the last      *)
(* component, leading dots of that component not counted                   *)
os_path_splitext(p) ==
    LET sep == LastIndexOf(p, "/")
        dot == LastIndexOf(p, ".")
    IN  IF dot > sep /\ \E k \in (sep + 1)..(dot - 1) : p[k] /= "."
        THEN [root |-> SubSeq(p, 1, dot - 1), ext |-> SubSeq(p, dot, Len(p))]
        ELSE [root |-> p, ext |-> <<>>]

os_path_join(a, b) ==
    IF b /= <<>> /\ Head(b) = "/" THEN b
    ELSE IF a = <<>> \/ Last(a) = "/" THEN a \o b
    ELSE a \o <<"/">> \o b

special_extensions == {<<".", "nii", ".", "gz">>, <<".", "tar", ".", "gz">>}

EndsWith(p, suffix) ==
    Len(p) > Len(suffix) /\ SubSeq(p, Len(p) - Len(suffix) + 1, Len(p)) = suffix

(* nipype.utils.filemanip.split_filename *)
split_filename(fname) ==
    LET sp == os_path_split(fname)
        special == {e \in special_extensions : EndsWith(sp.tail, e)}
    IN  IF special /= {}
        THEN LET e == CHOOSE x \in special : TRUE
             IN  [path |-> sp.head,
                  base |-> SubSeq(sp.tail, 1, Len(sp.tail) - Len(e)),
                  ext |-> e]
        ELSE [path |-> sp.head,
              base |-> os_path_splitext(sp.tail).root,
              ext |-> os_path_splitext(sp.tail).ext]

(* Mutant: the underscore after the prefix is lost. *)
strip_suffix_NoUnderscore(file_input, prefix) ==
    os_path_join(split_filename(file_input).path, <<prefix>>)

strip_suffix(file_input, prefix) ==
    os_path_join(split_filename(file_input).path, <<prefix \o "_">>)

DTB_P0_list_outputs(inputs) ==
    LET sf == split_filename(inputs.dsi_basepath)
    IN  Some(os_path_join(sf.path, Cat(sf.base, <<"P0", ".", "nii">>)))

DTB_gfa_list_outputs(inputs) ==
    LET sf == split_filename(inputs.dsi_basepath)
    IN  IF inputs.moment = 2
        THEN Some(os_path_join(sf.path, Cat(sf.base, <<"gfa", ".", "nii">>)))
        ELSE IF inputs.moment = 3
        THEN Some(os_path_join(sf.path, Cat(sf.base, <<"skewness", ".", "nii">>)))
        ELSE IF inputs.moment = 4
        THEN Some(os_path_join(sf.path, Cat(sf.base, <<"kurtosis", ".", "nii">>)))
        ELSE None

(***************************************************************************)
(* Workflows.                                                              *)
(*                                                                         *)
(* pe.Node(interface, name) declares a node; flow.connect adds edges, and  *)
(* with them their end nodes, to the workflow graph.  An edge may pass the *)
(* source value through a function (fn), as ('ODF', strip_suffix, prefix)  *)
(* does.  A declared node is its interface and the inputs set on it.       *)
(***************************************************************************)
NoInputs == [x \in {} |-> x]

Node(interface, inputs) == [interface |-> interface, inputs |-> inputs]

Edge(src, out, dst, in) ==
    [src |-> src, out |-> out, dst |-> dst, in |-> in, fn |-> <<>>]

EdgeVia(src, out, fname, arg, dst, in) ==
    [src |-> src, out |-> out, dst |-> dst, in |-> in, fn |-> <<fname, arg>>]

Identity(fields) == Node("IdentityInterface", [fields |-> fields])

GraphNodes(edges) == {e.src : e \in edges} \cup {e.dst : e \in edges}

Result(status, declared, edges, value) ==
    [status |-> status, declared |-> declared, edges |-> edges, value |-> value]

(***************************************************************************)
(* create_dtk_recon_flow                                                   *)
(***************************************************************************)
DtkConfigs ==
    [imaging_model : ImagingModels,
     compute_additional_maps : SUBSET {AdditionalMaps[i] : i \in 1..Len(AdditionalMaps)},
     maximum_b_value : {1000},
     gradient_table : {"siemens_06.txt"},
     dsi_number_of_directions : {514},
     number_of_directions : {514},
     number_of_output_directions : {181},
     recon_matrix_file : {"DSI_matrix_515x181.dat"},
     apply_gradient_orientation_correction : {TRUE},
     number_of_averages : {1},
     multiple_high_b_values : {FALSE},
     number_of_b0_volumes : {1}]

(* Mutant: the outputnode is declared without its 'max' field. *)
DtkOutputFields_NoMax == {"DWI", "B0", "ODF", "gFA", "skewness", "kurtosis", "P0", "V1"}

DtkOutputFields == {"DWI", "B0", "ODF", "gFA", "skewness", "kurtosis", "P0", "max", "V1"}

DtkInputNode == "inputnode" :> Identity({"diffusion", "diffusion_resampled"})

DtkOutputNode == "outputnode" :> Identity(DtkOutputFields)

DtkOdfOutputs ==
    {Edge("dtk_odfrecon", p, "outputnode", p) : p \in {"DWI", "B0", "ODF", "max"}}

(* lines 318-329 *)
DtkDsiNodes(c) ==
    "dtk_odfrecon" :> Node("ODFRecon",
        [out_prefix |-> "dsi",
         matrix |-> <<"$DSI_PATH", c.recon_matrix_file>>,
         n_b0 |-> c.number_of_b0_volumes,
         n_directions |-> c.dsi_number_of_directions + 1,
         n_output_directions |-> c.number_of_output_directions,
         dsi |-> TRUE])

DtkDsiEdges ==
    {Edge("inputnode", "diffusion_resampled", "dtk_odfrecon", "DWI")} \cup DtkOdfOutputs

(* lines 331-346 *)
DtkHardiNodes(c) ==
    ("dtk_hardimat" :> Node("HARDIMat",
        [gradient_table |-> c.gradient_table,
         oblique_correction |-> c.apply_gradient_orientation_correction]))
    @@ ("dtk_odfrecon" :> Node("ODFRecon",
        [out_prefix |-> "hardi",
         n_b0 |-> c.number_of_b0_volumes,
         n_directions |-> c.number_of_directions + 1,
         n_output_directions |-> c.number_of_output_directions]))

DtkHardiEdges ==
    {Edge("inputnode", "diffusion_resampled", "dtk_hardimat", "reference_file"),
     Edge("dtk_hardimat", "out_file", "dtk_odfrecon", "matrix"),
     Edge("inputnode", "diffusion_resampled", "dtk_odfrecon", "DWI")} \cup DtkOdfOutputs

(* lines 349-361 *)
DtkDtiNodes(c) ==
    "dtk_dtirecon" :> Node("DTIRecon",
        [out_prefix |-> "dti",
         b_value |-> c.maximum_b_value,
         gradient_matrix |-> c.gradient_table,
         multiple_b_values |-> c.multiple_high_b_values,
         n_averages |-> c.number_of_averages,
         number_of_b0 |-> c.number_of_b0_volumes,
         oblique_correction |-> c.apply_gradient_orientation_correction])

DtkDtiEdges ==
    {Edge("inputnode", "diffusion", "dtk_dtirecon", "DWI")}
    \cup {Edge("dtk_dtirecon", p, "outputnode", p) : p \in {"DWI", "B0", "V1"}}

(* The three `if config.imaging_model == ...` blocks, in order. *)
DtkReconNodes(c) ==
    (IF c.imaging_model = "DSI" THEN DtkDsiNodes(c) ELSE NoInputs)
    @@ (IF c.imaging_model = "HARDI" THEN DtkHardiNodes(c) ELSE NoInputs)
    @@ (IF c.imaging_model = "DTI" THEN DtkDtiNodes(c) ELSE NoInputs)

DtkReconEdges(c) ==
    (IF c.imaging_model = "DSI" THEN DtkDsiEdges ELSE {})
    \cup (IF c.imaging_model = "HARDI" THEN DtkHardiEdges ELSE {})
    \cup (IF c.imaging_model = "DTI" THEN DtkDtiEdges ELSE {})

(* The local names dtk_odfrecon and prefix are bound by the DSI and HARDI  *)
(* blocks only (prefix also by the DTI block, which does not read it).     *)
OdfReconBound(c) == c.imaging_model \in {"DSI", "HARDI"}

DtkPrefix(c) == IF c.imaging_model = "DSI" THEN "dsi" ELSE "hardi"

DtbNodeName(map) ==
    CASE map = "gFA" -> "dtb_gfa"
      [] map = "skewness" -> "dtb_skewness"
      [] map = "kurtosis" -> "dtb_kurtosis"
      [] map = "P0" -> "dtb_P0"

(* lines 364, 369, 374, 379 *)
DtbNode(map) ==
    CASE map = "gFA" -> Node("DTB_gfa", [moment |-> 2])
      [] map = "skewness" -> Node("DTB_gfa", [moment |-> 3])
      [] map = "kurtosis" -> Node("DTB_gfa", [moment |-> 4])
      [] map = "P0" -> Node("DTB_P0", NoInputs)

(* lines 365-367, 370-372, 375-377, 380-383 *)
DtbEdges(map, prefix) ==
    {EdgeVia("dtk_odfrecon", "ODF", "strip_suffix", prefix, DtbNodeName(map), "dsi_basepath"),
     Edge(DtbNodeName(map), "out_file", "outputnode", map)}
    \cup (IF map = "P0" THEN {Edge("inputnode", "diffusion", "dtb_P0", "dwi_file")} ELSE {})

(* Mutant: every map is computed, whatever was selected. *)
DtbWanted_All(c) ==
    IF c.imaging_model = "DTI" THEN <<>> ELSE AdditionalMaps

(* The maps the else branch of `if config.imaging_model == "DTI"` asks for,*)
(* in the order it tests them. *)
DtbWanted(c) ==
    IF c.imaging_model = "DTI" THEN <<>>
    ELSE SelectSeq(AdditionalMaps, LAMBDA m : m \in c.compute_additional_maps)

Range(seq) == {seq[i] : i \in 1..Len(seq)}

RECURSIVE DtbNodes(_)
DtbNodes(maps) ==
    IF maps = <<>> THEN NoInputs
    ELSE (DtbNodeName(Head(maps)) :> DtbNode(Head(maps))) @@ DtbNodes(Tail(maps))

create_dtk_recon_flow(c) ==
    LET wanted == DtbWanted(c)
    IN  IF wanted /= <<>> /\ ~OdfReconBound(c)
        THEN \* the first connect naming dtk_odfrecon raises NameError
             Result("NameError",
                    DtkInputNode @@ DtkOutputNode @@ DtkReconNodes(c)
                        @@ DtbNodes(<<Head(wanted)>>),
                    DtkReconEdges(c),
                    "nothing")
        ELSE Result("completed",
                    DtkInputNode @@ DtkOutputNode @@ DtkReconNodes(c) @@ DtbNodes(wanted),
                    DtkReconEdges(c)
                        \cup UNION {DtbEdges(m, DtkPrefix(c)) : m \in Range(wanted)},
                    "flow")

(***************************************************************************)
(* create_mrtrix_recon_flow                                                *)
(* lmax_order is 'Auto' or an even order, written here as a string; the    *)
(* float single_fib_thr is written as a string as well.                    *)
(***************************************************************************)
MrtrixConfigs ==
    [gradient_table : {"siemens_06.txt"},
     local_model : BOOLEAN,
     lmax_order : {"Auto", "2", "8"},
     normalize_to_B0 : BOOLEAN,
     single_fib_thr : {"0.7"}]

MrtrixOutputFields == {"DWI", "FA", "eigVec", "RF", "SD", "grad"}

(* lines 417-422 *)
MrtrixEndNodes(c) ==
    ("inputnode" :> Identity({"diffusion", "diffusion_resampled", "wm_mask_resampled"}))
    @@ ("outputnode" :> Node("IdentityInterface",
            [fields |-> MrtrixOutputFields,
             SD |-> IF c.local_model THEN TRUE ELSE FALSE]))

(* lines 426-448 *)
MrtrixTensorNodes(c) ==
    ("mrtrix_make_tensor" :> Node("DWI2Tensor", [encoding_file |-> c.gradient_table]))
    @@ ("mrtrix_FA" :> Node("Tensor2FractionalAnisotropy", NoInputs))
    @@ ("mrtrix_eigenvectors" :> Node("Tensor2Vector", NoInputs))

(* Mutant: source and destination of the FA output edge are swapped. *)
MrtrixTensorEdges_Swapped ==
    {Edge("inputnode", "diffusion_resampled", "mrtrix_make_tensor", "in_file"),
     Edge("mrtrix_make_tensor", "tensor", "mrtrix_FA", "in_file"),
     Edge("outputnode", "FA", "mrtrix_FA", "FA"),
     Edge("mrtrix_make_tensor", "tensor", "mrtrix_eigenvectors", "in_file"),
     Edge("mrtrix_eigenvectors", "vector", "outputnode", "eigVec")}

MrtrixTensorEdges ==
    {Edge("inputnode", "diffusion_resampled", "mrtrix_make_tensor", "in_file"),
     Edge("mrtrix_make_tensor", "tensor", "mrtrix_FA", "in_file"),
     Edge("mrtrix_FA", "FA", "outputnode", "FA"),
     Edge("mrtrix_make_tensor", "tensor", "mrtrix_eigenvectors", "in_file"),
     Edge("mrtrix_eigenvectors", "vector", "outputnode", "eigVec")}

(* lines 453-481 *)
MrtrixCsdNodes(c) ==
    ("mrtrix_erode" :> Node("Erode", [number_of_passes |-> 3]))
    @@ ("mrtrix_mul_eroded_FA" :> Node("MRtrix_mul",
            [out_filename |-> "diffusion_resampled_tensor_FA_masked.mif"]))
    @@ ("mrtrix_thr" :> Node("Threshold",
            [absolute_threshold_value |-> c.single_fib_thr]))
    @@ ("mrtrix_rf" :> Node("EstimateResponseForSH",
            IF c.lmax_order /= "Auto"
            THEN [encoding_file |-> c.gradient_table,
                  maximum_harmonic_order |-> c.lmax_order,
                  normalise |-> c.normalize_to_B0]
            ELSE [encoding_file |-> c.gradient_table,
                  normalise |-> c.normalize_to_B0]))
    @@ ("mrtrix_CSD" :> Node("ConstrainedSphericalDeconvolution",
            [normalise |-> c.normalize_to_B0, encoding_file |-> c.gradient_table]))

(* lines 461-466, 474-477, 482-488 *)
MrtrixCsdEdges ==
    {Edge("inputnode", "wm_mask_resampled", "mrtrix_erode", "in_file"),
     Edge("mrtrix_erode", "out_file", "mrtrix_mul_eroded_FA", "input2"),
     Edge("mrtrix_FA", "FA", "mrtrix_mul_eroded_FA", "input1"),
     Edge("mrtrix_mul_eroded_FA", "out_file", "mrtrix_thr", "in_file"),
     Edge("inputnode", "diffusion_resampled", "mrtrix_rf", "in_file"),
     Edge("mrtrix_thr", "out_file", "mrtrix_rf", "mask_image"),
     Edge("inputnode", "diffusion_resampled", "mrtrix_CSD", "in_file"),
     Edge("mrtrix_rf", "response", "mrtrix_CSD", "response_file"),
     Edge("mrtrix_rf", "response", "outputnode", "RF"),
     Edge("inputnode", "wm_mask_resampled", "mrtrix_CSD", "mask_image"),
     Edge("mrtrix_CSD", "spherical_harmonics_image", "outputnode", "DWI")}

(* lines 490-492 *)
MrtrixTensorOnlyEdges ==
    {Edge("inputnode", "diffusion_resampled", "outputnode", "DWI")}

(* Mutant: the CSD sub-graph is built but the pass-through of the          *)
(* resampled diffusion image is connected as well.                         *)
MrtrixModelEdges_BothSources(c) ==
    IF c.local_model THEN MrtrixCsdEdges \cup MrtrixTensorOnlyEdges
    ELSE MrtrixTensorOnlyEdges

MrtrixModelEdges(c) ==
    IF c.local_model THEN MrtrixCsdEdges ELSE MrtrixTensorOnlyEdges

create_mrtrix_recon_flow(c) ==
    Result("completed",
           MrtrixEndNodes(c) @@ MrtrixTensorNodes(c)
               @@ (IF c.local_model THEN MrtrixCsdNodes(c) ELSE NoInputs),
           MrtrixTensorEdges \cup MrtrixModelEdges(c),
           "flow")

(***************************************************************************)
(* create_camino_recon_flow                                                *)
(***************************************************************************)
CaminoConfigs ==
    [gradient_table : {"siemens_06.txt"},
     number_of_tensors : {"1", "2", "3", "Multitensor"},
     local_model : {"dt", "cylcyl", "adc"},
     max_components : 1..MaxComponents]

CaminoOutputFields == {"DWI", "FA", "MD", "eigVec", "RF", "SD", "grad"}

(* Mutant: two tensors are handed on as 'multitensor'. *)
CaminoInputModel_TwoAsMulti(c) ==
    IF c.number_of_tensors = "1" THEN [inputmodel |-> "dt"]
    ELSE IF c.number_of_tensors = "2" THEN [inputmodel |-> "multitensor"]
    ELSE IF c.number_of_tensors = "3" THEN [inputmodel |-> "threetensor"]
    ELSE IF c.number_of_tensors = "Multitensor" THEN [inputmodel |-> "multitensor"]
    ELSE NoInputs

(* lines 519-526 and 535-542 *)
CaminoInputModel(c) ==
    IF c.number_of_tensors = "1" THEN [inputmodel |-> "dt"]
    ELSE IF c.number_of_tensors = "2" THEN [inputmodel |-> "twotensor"]
    ELSE IF c.number_of_tensors = "3" THEN [inputmodel |-> "threetensor"]
    ELSE IF c.number_of_tensors = "Multitensor" THEN [inputmodel |-> "multitensor"]
    ELSE NoInputs

CaminoNodes(c) ==
    ("inputnode" :> Identity({"diffusion", "diffusion_resampled", "wm_mask_resampled"}))
    @@ ("outputnode" :> Identity(CaminoOutputFields))
    @@ ("camino_convert" :> Node("Image2Voxel", NoInputs))
    @@ ("camino_ModelFit" :> Node("ModelFit",
            [model |-> c.local_model, scheme_file |-> c.gradient_table]))
    @@ ("camino_FA" :> Node("ComputeFractionalAnisotropy", CaminoInputModel(c)))
    @@ ("camino_MD" :> Node("ComputeMeanDiffusivity", CaminoInputModel(c)))
    @@ ("camino_eigenvectors" :> Node("ComputeEigensystem",
            [inputmodel |-> IF c.number_of_tensors = "1" THEN "dt" ELSE "multitensor",
             maxcomponents |-> c.max_components]))

CaminoEdges ==
    {Edge("inputnode", "diffusion_resampled", "camino_convert", "in_file"),
     Edge("camino_convert", "voxel_order", "camino_ModelFit", "in_file"),
     Edge("inputnode", "wm_mask_resampled", "camino_ModelFit", "bgmask"),
     Edge("camino_ModelFit", "fitted_data", "outputnode", "DWI"),
     Edge("camino_ModelFit", "fitted_data", "camino_FA", "in_file"),
     Edge("camino_FA", "fa", "outputnode", "FA"),
     Edge("camino_ModelFit", "fitted_data", "camino_MD", "in_file"),
     Edge("camino_MD", "md", "outputnode", "MD"),
     Edge("camino_ModelFit", "fitted_data", "camino_eigenvectors", "in_file"),
     Edge("camino_eigenvectors", "eigen", "outputnode", "eigVec")}

create_camino_recon_flow(c) ==
    Result("completed", CaminoNodes(c), CaminoEdges, "flow")

(***************************************************************************)
(* create_gibbs_recon_flow                                                 *)
(* Floats are written as strings.  The function has no return statement:   *)
(* the workflow is built and the call returns None.                        *)
(***************************************************************************)
GibbsConfigs ==
    [iterations : {100000000, 500000},
     particle_length : {"1.5"},
     particle_width : {"0.5"},
     particle_weigth : {"0.0003"},
     temp_start : {"0.1"},
     temp_end : {"0.001"},
     inexbalance : {-2},
     fiber_length : {"20.0", "40.0"},
     curvature_threshold : {"90.0", "45.0"},
     sh_coefficient_convention : {"FSL", "MRtrix"}]

GibbsNodes(c) ==
    ("inputnode" :> Identity({"diffusion_resampled", "wm_mask_resampled"}))
    @@ ("outputnode" :> Identity({"DWI"}))
    @@ ("gibbs_recon" :> Node("gibbs_recon",
            [iterations |-> c.iterations,
             particle_length |-> c.particle_length,
             particle_width |-> c.particle_width,
             particle_weigth |-> c.particle_weigth,
             temp_start |-> c.temp_start,
             temp_end |-> c.temp_end,
             inexbalance |-> c.inexbalance,
             fiber_length |-> c.fiber_length,
             curvature_threshold |-> c.curvature_threshold,
             sh_coefficients |-> c.sh_coefficient_convention,
             out_file_name |-> <<"global_tractography", ".", "fib">>]))

GibbsEdges ==
    {Edge("inputnode", "diffusion_resampled", "gibbs_recon", "in_file"),
     Edge("inputnode", "wm_mask_resampled", "gibbs_recon", "mask"),
     Edge("gibbs_recon", "out_file", "outputnode", "DWI")}

create_gibbs_recon_flow(c) ==
    Result("completed", GibbsNodes(c), GibbsEdges, "None")

(***************************************************************************)
(* Execution of the gibbs_recon node.                                      *)
(*                                                                         *)
(* The parameter file is kept as the attributes of its parameter_set       *)
(* element, each with the text '%s' formatting gives it.  The process runs *)
(* in the node's working directory cwd.                                    *)
(***************************************************************************)
os_path_abspath(cwd, p) ==
    IF p /= <<>> /\ p[1] = "/" THEN p ELSE cwd \o <<"/">> \o p

(* the files the engine hands to in_file and mask *)
GibbsInFile == <<"/", "data", "/", "diffusion_resampled", ".", "nii">>

GibbsMask == <<"/", "data", "/", "wm_mask_resampled", ".", "nii">>

(* lines 610-611: xml_text *)
GibbsParameterSet(inputs) ==
    [iterations |-> ToString(inputs.iterations),
     particle_length |-> inputs.particle_length,
     particle_width |-> inputs.particle_width,
     particle_weight |-> inputs.particle_weigth,
     temp_start |-> inputs.temp_start,
     temp_end |-> inputs.temp_end,
     inexbalance |-> ToString(inputs.inexbalance),
     fiber_length |-> inputs.fiber_length,
     curvature_threshold |-> "90"]

(* lines 616-620: the inputs of the gibbs_command that is run *)
GibbsCommandInputs(inputs, cwd) ==
    [in_file |-> inputs.in_file,
     parameter_file |-> os_path_abspath(cwd, <<"gibbs_parameters", ".", "gtp">>),
     mask |-> inputs.mask,
     sh_coefficients |-> inputs.sh_coefficients,
     out_file_name |-> os_path_abspath(cwd, inputs.out_file_name)]

(* lines 578-581 *)
gibbs_command_list_outputs(inputs) ==
    Some([out_file |-> Some(inputs.out_file_name)])

(* lines 625-627: the dictionary is filled in and dropped, the method      *)
(* returns None                                                            *)
gibbs_recon_list_outputs(inputs, cwd) ==
    LET outputs == [out_file |-> Some(os_path_abspath(cwd, inputs.out_file_name))]
    IN  None

(* nipype: the output traits are set from _list_outputs() when it returns  *)
(* something, and stay undefined otherwise                                 *)
aggregate_outputs(predicted) ==
    IF predicted = None THEN [out_file |-> None] ELSE Val(predicted)

(* lines 607-623, then the outputs the node reports *)
ExecuteGibbs(r, cwd) ==
    LET inputs == [in_file |-> GibbsInFile, mask |-> GibbsMask]
                    @@ r.declared["gibbs_recon"].inputs
        command == GibbsCommandInputs(inputs, cwd)
    IN  [cwd |-> cwd,
         inputs |-> inputs,
         parameter_file |->
            [path |-> os_path_abspath(cwd, <<"gibbs_parameters", ".", "gtp">>),
             parameter_set |-> GibbsParameterSet(inputs)],
         command |-> command,
         command_outputs |-> aggregate_outputs(gibbs_command_list_outputs(command)),
         outputs |-> aggregate_outputs(gibbs_recon_list_outputs(inputs, cwd))]

(***************************************************************************)
(* Execution of the scalar-map nodes of a DTK workflow.                    *)
(*                                                                         *)
(* dtk_odfrecon has written its ODF file into its working directory; the   *)
(* engine hands each connected input the source value, passed through the  *)
(* edge's function, and each node reports its _list_outputs().             *)
(***************************************************************************)
WorkDirNames == {<<"work">>, <<"recon", ".", "d">>}

RECURSIVE DirsOfDepth(_)
DirsOfDepth(d) ==
    IF d = 0 THEN {<<>>}
    ELSE {p \o <<"/">> \o n : p \in DirsOfDepth(d - 1), n \in WorkDirNames}

WorkDirs == UNION {DirsOfDepth(d) : d \in 1..MaxDepth}

OdfNames(prefix) ==
    {<<prefix \o "_odf", ".", "nii">>, <<prefix \o "_odf", ".", "nii", ".", "gz">>}

ApplyEdgeFn(fn, value) ==
    IF fn = <<>> THEN value ELSE strip_suffix(value, fn[2])

ScalarMapNodes == {"dtb_gfa", "dtb_skewness", "dtb_kurtosis", "dtb_P0"}

ListOutputs(node, inputs) ==
    IF node.interface = "DTB_P0" THEN DTB_P0_list_outputs(inputs)
    ELSE DTB_gfa_list_outputs(inputs)

(* The inputs of a scalar-map node: those set at construction and the      *)
(* dsi_basepath connected from dtk_odfrecon.ODF.                           *)
ScalarMapInputs(f, n, odf) ==
    LET e == CHOOSE x \in f.edges : x.dst = n /\ x.in = "dsi_basepath"
    IN  ("dsi_basepath" :> ApplyEdgeFn(e.fn, odf)) @@ f.declared[n].inputs

ExecuteScalarMaps(f, dir, odf) ==
    LET present == GraphNodes(f.edges) \cap ScalarMapNodes
        inputs == [n \in present |-> ScalarMapInputs(f, n, odf)]
        outputs == [n \in present |-> ListOutputs(f.declared[n], inputs[n])]
        fed == {e \in f.edges : e.dst = "outputnode" /\ e.src \in present}
    IN  [dir |-> dir,
         odf |-> odf,
         inputs |-> inputs,
         outputs |-> outputs,
         outputnode |-> [p \in {e.in : e \in fed} |->
                            outputs[(CHOOSE e \in fed : e.in = p).src]]]

(***************************************************************************)
(* The workflow builders as a state machine.                               *)
(***************************************************************************)
FlowInit ==
    /\ args = None
    /\ cmd = None
    /\ MainIdle
    /\ FlowIdle
    /\ ConfigIdle

BuildDtk ==
    /\ \E c \in DtkConfigs :
        /\ builder' = "dtk"
        /\ config' = Some(c)
        /\ flow' = Some(create_dtk_recon_flow(c))
    /\ run' = None
    /\ gibbs' = None
    /\ UNCHANGED <<docker_vars, config_vars>>

BuildMrtrix ==
    /\ \E c \in MrtrixConfigs :
        /\ builder' = "mrtrix"
        /\ config' = Some(c)
        /\ flow' = Some(create_mrtrix_recon_flow(c))
    /\ run' = None
    /\ gibbs' = None
    /\ UNCHANGED <<docker_vars, config_vars>>

BuildCamino ==
    /\ \E c \in CaminoConfigs :
        /\ builder' = "camino"
        /\ config' = Some(c)
        /\ flow' = Some(create_camino_recon_flow(c))
    /\ run' = None
    /\ gibbs' = None
    /\ UNCHANGED <<docker_vars, config_vars>>

BuildGibbs ==
    /\ \E c \in GibbsConfigs :
        /\ builder' = "gibbs"
        /\ config' = Some(c)
        /\ flow' = Some(create_gibbs_recon_flow(c))
    /\ run' = None
    /\ gibbs' = None
    /\ UNCHANGED <<docker_vars, config_vars>>

RunScalarMaps ==
    /\ builder = "dtk"
    /\ run = None
    /\ Val(flow).value = "flow"
    /\ GraphNodes(Val(flow).edges) \cap ScalarMapNodes /= {}
    /\ \E dir \in WorkDirs :
        \E name \in OdfNames(Val(flow).declared["dtk_odfrecon"].inputs.out_prefix) :
            run' = Some(ExecuteScalarMaps(Val(flow), dir, dir \o <<"/">> \o name))
    /\ UNCHANGED <<docker_vars, config_vars, builder, config, flow, gibbs>>

RunGibbs ==
    /\ builder = "gibbs"
    /\ gibbs = None
    /\ \E cwd \in WorkDirs :
        gibbs' = Some(ExecuteGibbs(Val(flow), cwd))
    /\ UNCHANGED <<docker_vars, config_vars, builder, config, flow, run>>

FlowNext ==
    \/ RunGibbs
    \/ BuildDtk
    \/ BuildMrtrix
    \/ BuildCamino
    \/ BuildGibbs
    \/ RunScalarMaps

SpecFlow == FlowInit /\ [][FlowNext]_vars

(***************************************************************************)
(* The configuration objects on their own: a DTK_recon_config and a        *)
(* Camino_recon_config start from the class defaults and have their traits *)
(* assigned one at a time.  An assignment of the value a trait already has *)
(* notifies no handler and is left out.                                    *)
(***************************************************************************)
ConfigInit ==
    /\ args = None
    /\ cmd = None
    /\ MainIdle
    /\ FlowIdle
    /\ ConfigIdle

Frame == UNCHANGED <<docker_vars, flow_vars>>

DtkSetImagingModel ==
    /\ \E new \in ImagingModels :
        /\ new /= dtk_cfg.imaging_model
        /\ dtk_cfg' = DTK_imaging_model_changed(
                            [dtk_cfg EXCEPT !.imaging_model = new], new)
    /\ UNCHANGED camino_cfg
    /\ Frame

DtkSetGradientTableFile ==
    /\ \E new \in GradientTableFiles :
        /\ new /= dtk_cfg.gradient_table_file
        /\ dtk_cfg' = DTK_gradient_table_file_changed(
                            [dtk_cfg EXCEPT !.gradient_table_file = new], new)
    /\ UNCHANGED camino_cfg
    /\ Frame

DtkSetCustomGradientTable ==
    /\ \E new \in CustomGradientTables :
        /\ new /= dtk_cfg.custom_gradient_table
        /\ dtk_cfg' = DTK_custom_gradient_table_changed(
                            [dtk_cfg EXCEPT !.custom_gradient_table = new], new)
    /\ UNCHANGED camino_cfg
    /\ Frame

DtkSetDsiDirections ==
    /\ \E new \in DsiDirections :
        /\ new /= dtk_cfg.dsi_number_of_directions
        /\ dtk_cfg' = DTK_dsi_number_of_directions_changed(
                            [dtk_cfg EXCEPT !.dsi_number_of_directions = new], new)
    /\ UNCHANGED camino_cfg
    /\ Frame

CaminoSetNumberOfTensors ==
    /\ \E new \in NumberOfTensors :
        /\ new /= camino_cfg.number_of_tensors
        /\ camino_cfg' = Camino_number_of_tensors_changed(
                            [camino_cfg EXCEPT !.number_of_tensors = new], new)
    /\ UNCHANGED dtk_cfg
    /\ Frame

(* line 183: the editor offers the keys of local_model_editor *)
CaminoSelectLocalModel ==
    /\ \E new \in DOMAIN camino_cfg.local_model_editor :
        /\ new /= camino_cfg.local_model
        /\ camino_cfg' = [camino_cfg EXCEPT !.local_model = new]
    /\ UNCHANGED dtk_cfg
    /\ Frame

(* line 184: max_components is enabled when number_of_tensors != '1' *)
CaminoEditMaxComponents ==
    /\ camino_cfg.number_of_tensors /= "1"
    /\ \E new \in 1..MaxComponents :
        /\ new /= camino_cfg.max_components
        /\ camino_cfg' = [camino_cfg EXCEPT !.max_components = new]
    /\ UNCHANGED dtk_cfg
    /\ Frame

ConfigNext ==
    \/ DtkSetImagingModel
    \/ DtkSetGradientTableFile
    \/ DtkSetCustomGradientTable
    \/ DtkSetDsiDirections
    \/ CaminoSetNumberOfTensors
    \/ CaminoSelectLocalModel
    \/ CaminoEditMaxComponents

SpecConfig == ConfigInit /\ [][ConfigNext]_vars

(***************************************************************************)
(* Properties of main()                                                    *)
(***************************************************************************)

(* C1: main() ends by returning 0 when run(cmd) completed and 1 when it    *)
(* raised, for every argument namespace; it never ends by an uncaught      *)
(* exception.                                                              *)
C1_MainReturnsExitCode ==
    pc = "done" =>
        /\ outcome = "returned"
        /\ exit_code = Some(IF ran = "ok" THEN 0 ELSE 1)

(* C2: with track_carbon_footprint the tracker is started (once) before    *)
(* run(cmd) and stopped exactly once after it, whether run completed or    *)
(* raised; without it the tracker is never created, started or stopped.    *)
C2_TrackerBracketsRun ==
    IF args.track_carbon_footprint
    THEN /\ n_start <= 1
         /\ n_stop <= 1
         /\ (ran /= "no" => n_start = 1)
         /\ (pc = "run" => tracker = "started")
         /\ (n_stop > 0 => ran /= "no")
         /\ (pc \in {"report", "return", "done"} => n_stop = 1 /\ tracker = "stopped")
    ELSE tracker = "none" /\ n_start = 0 /\ n_stop = 0

C2_Witness ==
    /\ pc = "done"
    /\ args.track_carbon_footprint
    /\ ran = "raised"
    /\ n_start = 1
    /\ n_stop = 1

(***************************************************************************)
(* Properties of create_docker_cmd                                         *)
(***************************************************************************)
HostPaths ==
    {BidsDir, OutputDir, BidsDir \o "/code"}
    \cup UNION ConfigDirs \cup UNION FsLicenses

MountTargets == {"/bids_dir", "/output_dir", "/config", "/bids_dir/code/license.txt"}

MountOnto ==
    [t \in MountTargets |-> {"-v " \o h \o ":" \o t \o " " : h \in HostPaths}]

AllMounts == UNION {MountOnto[t] : t \in MountTargets}

EntrypointFragment == "--entrypoint /app/run_coverage_cmp3.sh "

ConfigNames == UNION (AnatConfigs \cup DwiConfigs \cup FuncConfigs)

PathPrefixes == {"", "/config/", "/bids_dir/code/", BidsDir \o "/code/"}

PipelineFlags == {"anat_pipeline_config", "dwi_pipeline_config", "func_pipeline_config"}

PipelineFlagFragments ==
    [flag \in PipelineFlags |->
        {"--" \o flag \o " " \o pre \o n \o " " : pre \in PathPrefixes, n \in ConfigNames}]

PipelineFlagUnderConfig ==
    [flag \in PipelineFlags |->
        {"--" \o flag \o " /config/" \o n \o " " : n \in ConfigNames}]

OptArgText(name, v) == "--" \o name \o " " \o ToString(v) \o " "

OptArgFragmentsOf ==
    [name \in OptArgNames |-> {OptArgText(name, v) : v \in 0..MaxArgVal}]

OptionRanks == 1..13

(* The options addressed to the BIDS App, by their place in the order. *)
OptionsOfRank ==
    [r \in OptionRanks |->
        CASE r = 1 -> {"--participant_label "}
          [] r = 2 -> {"--session_label "}
          [] r = 3 -> PipelineFlagFragments["anat_pipeline_config"]
          [] r = 4 -> PipelineFlagFragments["dwi_pipeline_config"]
          [] r = 5 -> PipelineFlagFragments["func_pipeline_config"]
          [] r = 6 -> {"--fs_license /bids_dir/code/license.txt "}
          [] r \in 7..11 -> OptArgFragmentsOf[optional_single_args[r - 6]]
          [] r = 12 -> {"--notrack "}
          [] r = 13 -> {"--coverage"}]

AppOptions == UNION {OptionsOfRank[r] : r \in OptionRanks}

IsAppOption(f) == f \in AppOptions

RankOf(f) == CHOOSE r \in OptionRanks : f \in OptionsOfRank[r]

LabelValues ==
    UNION {{l[i] \o " " : i \in 1..Len(l)} : l \in UNION (ParticipantLabels \cup SessionLabels)}

CmdBuilt == cmd /= None

(* C3: the command is the prelude, then the optional --entrypoint and the  *)
(* -v mounts, then the image, immediately followed by /bids_dir,           *)
(* /output_dir and the analysis level, and only then the BIDS App options, *)
(* in the order --participant_label, --session_label, the three pipeline   *)
(* configs, --fs_license, the optional single arguments, --notrack,        *)
(* --coverage.                                                             *)
C3_TokenOrder ==
    CmdBuilt =>
        LET c == Val(cmd)
            n == Len(c)
        IN  /\ n >= 6
            /\ c[1] = "docker run -t --rm "
            /\ c[2] = "-u $(id -u):$(id -g) "
            /\ \E i \in 3..(n - 3) :
                /\ c[i] = args.docker_image \o " "
                /\ \A j \in 3..(i - 1) : c[j] = EntrypointFragment \/ c[j] \in AllMounts
                /\ \A j \in 1..(i + 3) : ~IsAppOption(c[j])
                /\ c[i + 1] = "/bids_dir "
                /\ c[i + 2] = "/output_dir "
                /\ c[i + 3] = args.analysis_level \o " "
                /\ \A j \in (i + 4)..n : IsAppOption(c[j]) \/ c[j] \in LabelValues
                /\ (n >= i + 4 => IsAppOption(c[i + 4]))
                /\ \A j, k \in (i + 4)..n :
                        (j < k /\ IsAppOption(c[j]) /\ IsAppOption(c[k]))
                            => RankOf(c[j]) < RankOf(c[k])
                /\ \A j \in (i + 5)..n :
                        (c[j] \in LabelValues /\ IsAppOption(c[j - 1]))
                            => RankOf(c[j - 1]) \in {1, 2}

C3_Witness ==
    /\ CmdBuilt
    /\ args.coverage
    /\ args.notrack
    /\ args.participant_label /= None
    /\ args.session_label /= None
    /\ args.anat_pipeline_config /= None
    /\ args.func_pipeline_config /= None
    /\ \A name \in OptArgNames : args.opt[name] = Some(1)
    /\ Val(cmd)[Len(Val(cmd))] = "--coverage"
    /\ Val(cmd)[Len(Val(cmd)) - 1] = "--notrack "
    /\ Val(cmd)[Len(Val(cmd)) - 2] = "--ants_number_of_threads 1 "

(* C4: each optional single argument that was given a value, 0 included,   *)
(* appears as '--<name> <value>', and one that was not given does not      *)
(* appear.                                                                 *)
C4_OptionalArgsForwarded ==
    CmdBuilt =>
        \A name \in OptArgNames :
            LET c == Val(cmd)
                emitted == {c[j] : j \in 1..Len(c)} \cap OptArgFragmentsOf[name]
            IN  IF args.opt[name] = None
                THEN emitted = {}
                ELSE emitted = {OptArgText(name, Val(args.opt[name]))}

(* C5: exactly one host directory is mounted onto /config, args.config_dir *)
(* when set and <bids_dir>/code otherwise, and every pipeline config flag  *)
(* that is emitted points under /config/.                                  *)
C5_ConfigMount ==
    CmdBuilt =>
        LET c == Val(cmd)
            at == {j \in 1..Len(c) : c[j] \in MountOnto["/config"]}
            host == IF args.config_dir /= None
                    THEN Val(args.config_dir)
                    ELSE args.bids_dir \o "/code"
            flags == PipelineFlags
        IN  /\ Cardinality(at) = 1
            /\ \A j \in at : c[j] = "-v " \o host \o ":/config "
            /\ \A j \in 1..Len(c) : \A f \in flags :
                    c[j] \in PipelineFlagFragments[f] => c[j] \in PipelineFlagUnderConfig[f]
            /\ (args.anat_pipeline_config /= None) =
                    (\E j \in 1..Len(c) : c[j] \in PipelineFlagUnderConfig["anat_pipeline_config"])
            /\ (args.dwi_pipeline_config /= None) =
                    (\E j \in 1..Len(c) : c[j] \in PipelineFlagUnderConfig["dwi_pipeline_config"])
            /\ (args.func_pipeline_config /= None) =
                    (\E j \in 1..Len(c) : c[j] \in PipelineFlagUnderConfig["func_pipeline_config"])

C5_Witness ==
    /\ CmdBuilt
    /\ args.config_dir = None
    /\ args.dwi_pipeline_config /= None
    /\ \E j \in 1..Len(Val(cmd)) : Val(cmd)[j] = "-v /data/bids/code:/config "
    /\ \E j \in 1..Len(Val(cmd)) :
            Val(cmd)[j] = "--dwi_pipeline_config /config/ref_diffusion_config.json "

(* C6: the --entrypoint override and the trailing --coverage flag are both *)
(* present when args.coverage is set and both absent when it is not.       *)
C6_CoveragePair ==
    CmdBuilt =>
        LET c == Val(cmd)
            entry == {j \in 1..Len(c) : c[j] = EntrypointFragment}
            flag == {j \in 1..Len(c) : c[j] = "--coverage"}
        IN  /\ (entry /= {}) = args.coverage
            /\ (flag /= {}) = args.coverage
            /\ (entry /= {}) = (flag /= {})
            /\ flag \subseteq {Len(c)}
            /\ Cardinality(entry) <= 1

C6_Witness ==
    /\ CmdBuilt
    /\ args.coverage
    /\ Val(cmd)[3] = EntrypointFragment
    /\ Val(cmd)[Len(Val(cmd))] = "--coverage"

LicenseFlag == "--fs_license /bids_dir/code/license.txt "

(* C16: every command carries the fragment '--fs_license                    *)
(* /bids_dir/code/license.txt' exactly once, whether or not args.fs_license  *)
(* is set, and mounts '-v <fs_license>:/bids_dir/code/license.txt' exactly   *)
(* when args.fs_license is set.                                              *)
C16_FsLicense ==
    CmdBuilt =>
        LET c == Val(cmd)
            flags == {j \in 1..Len(c) : c[j] = LicenseFlag}
            mounts == {j \in 1..Len(c) : c[j] \in MountOnto["/bids_dir/code/license.txt"]}
        IN  /\ Cardinality(flags) = 1
            /\ (mounts /= {}) = TruthyStr(args.fs_license)
            /\ Cardinality(mounts) <= 1
            /\ \A j \in mounts :
                    c[j] = "-v " \o Val(args.fs_license) \o ":/bids_dir/code/license.txt "

C16_Witness ==
    /\ CmdBuilt
    /\ args.fs_license = Some("/opt/freesurfer/license.txt")
    /\ \E j \in 1..Len(Val(cmd)) :
            Val(cmd)[j] = "-v /opt/freesurfer/license.txt:/bids_dir/code/license.txt "
    /\ \E j \in 1..Len(Val(cmd)) : Val(cmd)[j] = LicenseFlag

(***************************************************************************)
(* Properties of the workflow builders                                     *)
(***************************************************************************)
FlowBuilt == flow /= None

Successors(E, S) == {e.dst : e \in {x \in E : x.src \in S}}

RECURSIVE ReachableIn(_, _, _)
ReachableIn(E, S, k) ==
    IF k = 0 THEN S ELSE ReachableIn(E, S \cup Successors(E, S), k - 1)

(* the nodes reachable from n along at least one edge *)
Descendants(E, n) ==
    ReachableIn(E, Successors(E, {n}), Cardinality(GraphNodes(E)))

Acyclic(E) == \A n \in GraphNodes(E) : n \notin Descendants(E, n)

(* C7: every workflow graph the four builders build is acyclic, its        *)
(* inputnode has no incoming edge and its outputnode no outgoing edge.     *)
C7_GraphIsDag ==
    FlowBuilt =>
        LET E == Val(flow).edges
        IN  /\ Acyclic(E)
            /\ \A e \in E : e.dst /= "inputnode"
            /\ \A e \in E : e.src /= "outputnode"

C7_Witness ==
    /\ FlowBuilt
    /\ builder = "mrtrix"
    /\ Val(config).local_model
    /\ Cardinality(Val(flow).edges) = 16
    /\ "mrtrix_CSD" \in Descendants(Val(flow).edges, "mrtrix_erode")

(* C8: in the MRtrix workflow the tensor, FA and eigenvector nodes are     *)
(* always present and the spherical-deconvolution nodes exactly when       *)
(* config.local_model; outputnode.DWI has exactly one source (the CSD      *)
(* node's spherical_harmonics_image with local_model, else                 *)
(* inputnode.diffusion_resampled), RF is fed exactly with local_model, and *)
(* outputnode.SD equals config.local_model.                                *)
C8_MrtrixTopology ==
    (FlowBuilt /\ builder = "mrtrix") =>
        LET f == Val(flow)
            c == Val(config)
            N == GraphNodes(f.edges)
            csd == {"mrtrix_erode", "mrtrix_mul_eroded_FA", "mrtrix_thr",
                    "mrtrix_rf", "mrtrix_CSD"}
            into(p) == {e \in f.edges : e.dst = "outputnode" /\ e.in = p}
        IN  /\ {"mrtrix_make_tensor", "mrtrix_FA", "mrtrix_eigenvectors"} \subseteq N
            /\ IF c.local_model THEN csd \subseteq N ELSE csd \cap N = {}
            /\ \A n \in N : n \in DOMAIN f.declared
            /\ into("DWI") =
                    IF c.local_model
                    THEN {Edge("mrtrix_CSD", "spherical_harmonics_image", "outputnode", "DWI")}
                    ELSE {Edge("inputnode", "diffusion_resampled", "outputnode", "DWI")}
            /\ (into("RF") /= {}) = c.local_model
            /\ f.declared["outputnode"].inputs.SD = c.local_model

C8_Witness ==
    /\ FlowBuilt
    /\ builder = "mrtrix"
    /\ Val(config).local_model
    /\ "mrtrix_CSD" \in GraphNodes(Val(flow).edges)
    /\ Val(flow).declared["outputnode"].inputs.SD

C10_ScalarMapFiles ==
    run /= None =>
        LET r == Val(run)
            f == Val(flow)
            prefix == IF Val(config).imaging_model = "DSI" THEN "dsi" ELSE "hardi"
            basepath == r.dir \o <<"/", prefix \o "_">>
            file(stem) == r.dir \o <<"/", prefix \o "_" \o stem, ".", "nii">>
            stemOf(n) ==
                IF f.declared[n].interface = "DTB_P0" THEN "P0"
                ELSE CASE f.declared[n].inputs.moment = 2 -> "gfa"
                       [] f.declared[n].inputs.moment = 3 -> "skewness"
                       [] f.declared[n].inputs.moment = 4 -> "kurtosis"
            portOf == [gfa |-> "gFA", skewness |-> "skewness",
                       kurtosis |-> "kurtosis", P0 |-> "P0"]
            fed == {e \in f.edges : e.dst = "outputnode" /\ e.src \in ScalarMapNodes}
        IN  /\ Val(config).imaging_model \in {"DSI", "HARDI"}
            /\ DOMAIN r.inputs = GraphNodes(f.edges) \cap ScalarMapNodes
            /\ \A n \in DOMAIN r.inputs : r.inputs[n].dsi_basepath = basepath
            /\ \A n \in DOMAIN r.outputs : r.outputs[n] = Some(file(stemOf(n)))
            /\ \A e \in fed : e.out = "out_file" /\ e.in = portOf[stemOf(e.src)]
            /\ {e.src : e \in fed} = DOMAIN r.outputs
            /\ \A p \in DOMAIN r.outputnode :
                    r.outputnode[p] =
                        Some(file(CHOOSE st \in DOMAIN portOf : portOf[st] = p))

C10_Witness ==
    /\ run /= None
    /\ Val(config).imaging_model = "HARDI"
    /\ Val(run).odf = <<"/", "work", "/", "recon", ".", "d", "/", "hardi_odf", ".", "nii">>
    /\ {"dtb_kurtosis", "dtb_P0"} \subseteq DOMAIN Val(run).inputs
    /\ Val(run).inputs["dtb_kurtosis"].dsi_basepath =
            <<"/", "work", "/", "recon", ".", "d", "/", "hardi_">>
    /\ Val(run).outputnode["kurtosis"] =
            Some(<<"/", "work", "/", "recon", ".", "d", "/", "hardi_kurtosis", ".", "nii">>)
    /\ Val(run).outputnode["P0"] =
            Some(<<"/", "work", "/", "recon", ".", "d", "/", "hardi_P0", ".", "nii">>)

(* C12: create_dtk_recon_flow returns a workflow for every imaging_model   *)
(* and every subset of compute_additional_maps, and every edge of it        *)
(* leaves a node declared in that call.                                     *)
C12_DtkReturnsWorkflow ==
    (FlowBuilt /\ builder = "dtk") =>
        LET r == Val(flow)
        IN  /\ r.status = "completed"
            /\ r.value = "flow"
            /\ \A e \in r.edges : e.src \in DOMAIN r.declared

(* C13: in every workflow the builders build, an input port of a node is   *)
(* the destination of at most one edge, and every outputnode port that is   *)
(* fed is one of the fields the outputnode was declared with.               *)
C13_SingleFeed ==
    FlowBuilt =>
        LET r == Val(flow)
        IN  /\ \A e1, e2 \in r.edges :
                    (e1.dst = e2.dst /\ e1.in = e2.in) => e1 = e2
            /\ \A e \in r.edges :
                    e.dst = "outputnode" =>
                        e.in \in r.declared["outputnode"].inputs.fields

C13_Witness ==
    /\ FlowBuilt
    /\ builder = "dtk"
    /\ Val(config).imaging_model = "HARDI"
    /\ {e.in : e \in {x \in Val(flow).edges : x.dst = "outputnode"}}
            = {"DWI", "B0", "ODF", "max", "gFA", "skewness", "kurtosis", "P0"}

CaminoBuilt == FlowBuilt /\ builder = "camino"

InputModelOf(r, n) == r.declared[n].inputs.inputmodel

(* the parameters number_of_tensors selects on the three map nodes *)
C15_Parameters ==
    CaminoBuilt =>
        LET r == Val(flow)
            t == Val(config).number_of_tensors
            expected == CASE t = "1" -> "dt"
                          [] t = "2" -> "twotensor"
                          [] t = "3" -> "threetensor"
                          [] t = "Multitensor" -> "multitensor"
        IN  /\ InputModelOf(r, "camino_FA") = expected
            /\ InputModelOf(r, "camino_MD") = expected
            /\ InputModelOf(r, "camino_eigenvectors")
                    = (IF t = "1" THEN "dt" ELSE "multitensor")

(* two calls of the builder, whatever their configs, build one graph *)
C15_SameGraph ==
    (CaminoBuilt /\ CaminoBuilt') =>
        /\ DOMAIN Val(flow').declared = DOMAIN Val(flow).declared
        /\ \A n \in DOMAIN Val(flow).declared :
                Val(flow').declared[n].interface = Val(flow).declared[n].interface
        /\ Val(flow').edges = Val(flow).edges

(* C15: create_camino_recon_flow builds the same nodes and edges for every *)
(* config; only node parameters vary: camino_FA and camino_MD get the same  *)
(* inputmodel ('dt', 'twotensor', 'threetensor', 'multitensor' for           *)
(* number_of_tensors '1', '2', '3', 'Multitensor'), camino_eigenvectors      *)
(* gets 'dt' for '1' and 'multitensor' otherwise.                            *)
C15_CaminoTopology == []C15_Parameters /\ [][C15_SameGraph]_vars

C15_Witness ==
    /\ CaminoBuilt
    /\ Val(config).number_of_tensors = "3"
    /\ InputModelOf(Val(flow), "camino_FA") = "threetensor"
    /\ InputModelOf(Val(flow), "camino_MD") = "threetensor"
    /\ InputModelOf(Val(flow), "camino_eigenvectors") = "multitensor"
    /\ Cardinality(Val(flow).edges) = 10

GibbsRan == gibbs /= None

(* the text t written in the file denotes the configured value v: a float  *)
(* is configured as its decimal text, an integer as a number               *)
SameNumber(t, v) == t = v \/ t \o ".0" = v

(* C11: the parameter file gibbs_recon writes carries every tracking       *)
(* parameter with the value configured in the Gibbs_recon_config the        *)
(* workflow was built from: iterations, particle_length, particle_width,    *)
(* the particle weight, temp_start, temp_end, inexbalance, fiber_length     *)
(* and curvature_threshold.                                                 *)
C11_ParameterFile ==
    GibbsRan =>
        LET f == Val(gibbs).parameter_file.parameter_set
            c == Val(config)
        IN  /\ f.iterations = ToString(c.iterations)
            /\ SameNumber(f.particle_length, c.particle_length)
            /\ SameNumber(f.particle_width, c.particle_width)
            /\ SameNumber(f.particle_weight, c.particle_weigth)
            /\ SameNumber(f.temp_start, c.temp_start)
            /\ SameNumber(f.temp_end, c.temp_end)
            /\ f.inexbalance = ToString(c.inexbalance)
            /\ SameNumber(f.fiber_length, c.fiber_length)
            /\ SameNumber(f.curvature_threshold, c.curvature_threshold)

(* C14: after gibbs_recon has run, its out_file output is the absolute     *)
(* path of inputs.out_file_name, the path given as '-o' to the Gibbs        *)
(* command, and the workflow forwards that output to outputnode.DWI.        *)
C14_GibbsOutFile ==
    GibbsRan =>
        LET g == Val(gibbs)
        IN  /\ g.outputs.out_file
                    = Some(os_path_abspath(g.cwd, g.inputs.out_file_name))
            /\ g.outputs.out_file = Some(g.command.out_file_name)
            /\ Edge("gibbs_recon", "out_file", "outputnode", "DWI")
                    \in Val(flow).edges

(***************************************************************************)
(* Properties of the configuration objects                                 *)
(***************************************************************************)
MatrixFileFor(n) == "DSI_matrix_" \o ToString(n) \o "x181.dat"

(* C17: whenever imaging_model is 'DSI', after any changes of              *)
(* imaging_model, gradient_table_file, custom_gradient_table and            *)
(* dsi_number_of_directions, number_of_directions equals                    *)
(* dsi_number_of_directions and recon_matrix_file is                        *)
(* 'DSI_matrix_<dsi_number_of_directions+1>x181.dat', so that the matrix    *)
(* file handed to dtk_odfrecon matches its n_directions.                    *)
C17_DsiMatrix ==
    dtk_cfg.imaging_model = "DSI" =>
        LET odfrecon == DtkDsiNodes(dtk_cfg)["dtk_odfrecon"].inputs
        IN  /\ dtk_cfg.number_of_directions = dtk_cfg.dsi_number_of_directions
            /\ dtk_cfg.recon_matrix_file
                    = MatrixFileFor(dtk_cfg.dsi_number_of_directions + 1)
            /\ odfrecon.matrix[2] = MatrixFileFor(odfrecon.n_directions)

(* C18: after any changes of number_of_tensors, selections of local_model  *)
(* among the keys of the current local_model_editor and edits of            *)
(* max_components made while number_of_tensors is not '1', local_model is   *)
(* a key of the current local_model_editor, and max_components is 1         *)
(* whenever number_of_tensors is '1'.                                       *)
C18_CaminoConsistent ==
    /\ camino_cfg.local_model \in DOMAIN camino_cfg.local_model_editor
    /\ camino_cfg.number_of_tensors = "1" => camino_cfg.max_components = 1

(* back at one tensor, through the handler, with a model selected since *)
C18_Witness ==
    /\ camino_cfg.number_of_tensors = "1"
    /\ camino_cfg.local_model_editor.dt = "Linear fit"
    /\ camino_cfg.local_model = "nldt"
    /\ camino_cfg.max_components = 1

====
